---- MODULE Spec2Model ----
(***************************************************************************)
(* Police Smart Analytics API: the incident collection and the four        *)
(* endpoints that read or extend it (src/main.py), with the Incident       *)
(* schema that validates what is created (src/schemas.py).                 *)
(*                                                                         *)
(* A JSON/BSON value is a record [tag, num, str]: tag "absent" (the key is *)
(* not in the mapping), "null" (Python None), "num" or "str".  The number  *)
(* of response_minutes is in whole minutes, the number of latitude and     *)
(* longitude is in hundredths of a degree, and the number of               *)
(* avg_response_minutes is in hundredths of a minute (two decimals).       *)
(***************************************************************************)
EXTENDS Integers, Sequences, FiniteSets, TLC

VARIABLES store, request, response

vars == <<store, request, response>>

(* ------------------------------ bounds -------------------------------- *)

\* most documents the incident collection holds
MaxDocs == 3

\* most records one seeding request asks for
MaxSeed == 2

(* ------------------------------ values -------------------------------- *)

Absent == [tag |-> "absent", num |-> 0, str |-> ""]

Null == [tag |-> "null", num |-> 0, str |-> ""]

Num(n) == [tag |-> "num", num |-> n, str |-> ""]

Str(s) == [tag |-> "str", num |-> 0, str |-> s]

\* the character codes (ord) of the strings whose characters the code looks at
Codes(s) ==
  CASE s = "" -> <<>>
    [] s = "2024-01" -> <<50, 48, 50, 52, 45, 48, 49>>
    [] s = "2024-01-01" -> <<50, 48, 50, 52, 45, 48, 49, 45, 48, 49>>
    [] s = "2024-01-02" -> <<50, 48, 50, 52, 45, 48, 49, 45, 48, 50>>
    [] s = "2024-01-02T10:00:00+00:00" ->
         <<50, 48, 50, 52, 45, 48, 49, 45, 48, 50, 84, 49, 48, 58, 48, 48, 58,
           48, 48, 43, 48, 48, 58, 48, 48>>
    [] s = "2024-01-09T08:30:00+00:00" ->
         <<50, 48, 50, 52, 45, 48, 49, 45, 48, 57, 84, 48, 56, 58, 51, 48, 58,
           48, 48, 43, 48, 48, 58, 48, 48>>
    [] s = "0" -> <<48>>
    [] s = "15" -> <<49, 53>>
    [] s = "n/a" -> <<110, 47, 97>>

RECURSIVE SeqLess(_, _)
\* Python's str < str: lexicographic on the code points, a proper prefix first
SeqLess(a, b) ==
  IF b = <<>> THEN FALSE
  ELSE IF a = <<>> THEN TRUE
  ELSE IF Head(a) # Head(b) THEN Head(a) < Head(b)
  ELSE SeqLess(Tail(a), Tail(b))

StrLess(s, t) == SeqLess(Codes(s), Codes(t))

IsDigit(c) == c >= 48 /\ c <= 57

RECURSIVE DigitsValue(_, _)
DigitsValue(cs, acc) ==
  IF cs = <<>> THEN acc ELSE DigitsValue(Tail(cs), 10 * acc + (Head(cs) - 48))

\* a float() that never raises
FloatNeverRaises(v) == FALSE

\* float(v) raises ValueError: a string that is no decimal literal
\* (of float's grammar the model keeps the unsigned digit strings)
FloatRaises(v) ==
  /\ v.tag = "str"
  /\ \/ Codes(v.str) = <<>>
     \/ \E i \in 1..Len(Codes(v.str)) : ~IsDigit(Codes(v.str)[i])

\* float(v) of a number or of a decimal literal
Float(v) == IF v.tag = "num" THEN v.num ELSE DigitsValue(Codes(v.str), 0)

(* ------------------------ schemas.py: Incident ------------------------ *)

IncidentTypes ==
  {"theft", "assault", "burglary", "fraud", "vandalism", "traffic",
   "narcotics", "homicide", "disturbance", "other"}

IncidentSeverities == {"low", "medium", "high", "critical"}

IncidentStatuses == {"reported", "dispatched", "on_scene", "resolved", "closed"}

\* latitude: ge=-90, le=90, in hundredths of a degree
LatitudeMin == -9000

LatitudeMax == 9000

\* longitude: ge=-180, le=180, in hundredths of a degree
LongitudeMin == -18000

LongitudeMax == 18000

\* response_minutes: ge=0
ResponseMinutesMin == 0

\* the keys of an incident mapping that the endpoints or the schema look at
\* (incident_id, description, occurred_at and officer_id are free text that
\* no endpoint reads and no constraint restricts)
Fields ==
  {"type", "severity", "status", "latitude", "longitude", "reported_at",
   "response_minutes", "precinct"}

\* a Literal[...] field with a default: absent takes the default, anything
\* outside the enumeration (None too) is a validation error
LiteralRaises(v, enum) == v.tag # "absent" /\ ~(v.tag = "str" /\ v.str \in enum)

LiteralField(v, default) == IF v.tag = "absent" THEN Str(default) ELSE v

\* an Optional[str] field, default None
OptStrRaises(v) == v.tag = "num"

OptStrField(v) == IF v.tag = "absent" THEN Null ELSE v

\* an Optional[float] field, default None, with a ge bound: a decimal
\* literal is coerced to its number, then the bound is checked
OptFloatGeRaises(v, lo) ==
  \/ FloatRaises(v)
  \/ v.tag \in {"num", "str"} /\ Float(v) < lo

\* the same with ge and le bounds
OptFloatRaises(v, lo, hi) ==
  \/ OptFloatGeRaises(v, lo)
  \/ v.tag \in {"num", "str"} /\ Float(v) > hi

OptFloatField(v) == IF v.tag \in {"num", "str"} THEN Num(Float(v)) ELSE Null

\* Incident(**raw) raises ValidationError
IncidentRaises(raw) ==
  \/ LiteralRaises(raw.type, IncidentTypes)
  \/ LiteralRaises(raw.severity, IncidentSeverities)
  \/ LiteralRaises(raw.status, IncidentStatuses)
  \/ OptFloatRaises(raw.latitude, LatitudeMin, LatitudeMax)
  \/ OptFloatRaises(raw.longitude, LongitudeMin, LongitudeMax)
  \/ OptStrRaises(raw.reported_at)
  \/ OptFloatGeRaises(raw.response_minutes, ResponseMinutesMin)
  \/ OptStrRaises(raw.precinct)

\* Incident(**raw): the validated model, every field present
Incident(raw) ==
  [type |-> LiteralField(raw.type, "other"),
   severity |-> LiteralField(raw.severity, "medium"),
   status |-> LiteralField(raw.status, "reported"),
   latitude |-> OptFloatField(raw.latitude),
   longitude |-> OptFloatField(raw.longitude),
   reported_at |-> OptStrField(raw.reported_at),
   response_minutes |-> OptFloatField(raw.response_minutes),
   precinct |-> OptStrField(raw.precinct)]

\* a stored mapping that meets every Incident field constraint
SatisfiesIncident(d) ==
  /\ d.type.tag = "str" /\ d.type.str \in IncidentTypes
  /\ d.severity.tag = "str" /\ d.severity.str \in IncidentSeverities
  /\ d.status.tag = "str" /\ d.status.str \in IncidentStatuses
  /\ d.latitude.tag = "num" =>
       (d.latitude.num >= LatitudeMin /\ d.latitude.num <= LatitudeMax)
  /\ d.longitude.tag = "num" =>
       (d.longitude.num >= LongitudeMin /\ d.longitude.num <= LongitudeMax)
  /\ d.latitude.tag \in {"null", "num"}
  /\ d.longitude.tag \in {"null", "num"}
  /\ d.response_minutes.tag \in {"null", "num"}
  /\ d.response_minutes.tag = "num" => d.response_minutes.num >= ResponseMinutesMin

(* ---------------- the document store (database module) ---------------- *)

\* insert(collection, record) -> id: the record is appended; ids are given
\* in insertion order and never reused
create_document(coll, data) == Append(coll, data)

inserted_id(coll) == ToString(Len(coll) + 1)

\* the record matches every filter by exact equality
Matches(d, filters) == \A k \in DOMAIN filters : d[k] = filters[k]

RECURSIVE Take(_, _)
Take(s, n) == IF n = 0 \/ s = <<>> THEN <<>> ELSE <<Head(s)>> \o Take(Tail(s), n - 1)

\* query(collection, filters, limit) -> list of record: the matching
\* records in insertion order, each with its "_id", at most limit of them
\* (limit Null: all)
get_documents(coll, filters, limit) ==
  LET withId == [i \in 1..Len(coll) |-> coll[i] @@ [_id |-> i]]
      found == SelectSeq(withId, LAMBDA d : Matches(d, filters))
  IN  IF limit.tag = "num" THEN Take(found, limit.num) ELSE found

(* ----------------------- main.py: the handlers ------------------------ *)

\* d.get(k): the default left out
GetNoDefault(d, k, default) == IF d[k].tag = "absent" THEN Null ELSE d[k]

\* d.get(k, default)
Get(d, k, default) == IF d[k].tag = "absent" THEN default ELSE d[k]

\* a query parameter that is given and not the empty string ("if type:")
Truthy(v) == v.tag = "str" /\ v.str # ""

Ok(body) == [code |-> 200, body |-> body]

\* HTTPException(status_code=500, detail=str(e))
InternalError(e) == [code |-> 500, body |-> [detail |-> e]]

\* the framework's answer to a body or a query parameter outside its bounds
Unprocessable == [code |-> 422, body |-> [detail |-> "validation"]]

\* read_root
read_root == Ok([message |-> "Police Smart Analytics Backend Running"])

\* create_incident: the payload is validated by IncidentIn before the
\* handler runs
create_incident(coll, payload) ==
  IF IncidentRaises(payload) THEN Unprocessable
  ELSE Ok([id |-> inserted_id(coll)])

\* an update in place of an insert: the newest stored record is overwritten
create_incident_store_upsert(coll, payload) ==
  IF IncidentRaises(payload) THEN coll
  ELSE IF coll = <<>> THEN create_document(coll, Incident(payload))
  ELSE [coll EXCEPT ![Len(coll)] = Incident(payload)]

\* create_incident: what the handler leaves in the collection
create_incident_store(coll, payload) ==
  IF IncidentRaises(payload) THEN coll
  ELSE create_document(coll, Incident(payload))

\* limit: Query(100, ge=1, le=1000)
LimitMin == 1

LimitMax == 1000

FilterKeys == {"type", "severity", "status", "precinct"}

\* list_incidents: the filters built from the given parameters
ListFilters(q) == [k \in {f \in FilterKeys : Truthy(q[f])} |-> q[k]]

\* d["id"] = str(d.pop("_id"))
PopId(d) ==
  [k \in (DOMAIN d \ {"_id"}) \cup {"id"} |->
     IF k = "id" THEN ToString(d._id) ELSE d[k]]

\* key=lambda x: x.get("reported_at", "")
SortKey(x) == Get(x, "reported_at", Str(""))

\* docs.sort raises TypeError: a None key met in a comparison, and every
\* element of a list of two or more is compared at least once
SortRaises(docs) ==
  Len(docs) >= 2 /\ \E i \in 1..Len(docs) : SortKey(docs[i]).tag # "str"

RECURSIVE InsertDesc(_, _)
\* x goes behind every element whose key is not less than its own
InsertDesc(sorted, x) ==
  IF sorted = <<>> THEN <<x>>
  ELSE IF StrLess(SortKey(Head(sorted)).str, SortKey(x).str)
       THEN <<x>> \o sorted
       ELSE <<Head(sorted)>> \o InsertDesc(Tail(sorted), x)

RECURSIVE SortDesc(_, _)
\* docs.sort(key=..., reverse=True): stable, equal keys keep their order
SortDesc(docs, sorted) ==
  IF docs = <<>> THEN sorted
  ELSE SortDesc(Tail(docs), InsertDesc(sorted, Head(docs)))

list_incidents(coll, q) ==
  IF q.limit < LimitMin \/ q.limit > LimitMax THEN Unprocessable
  ELSE
    LET fetched == get_documents(coll, ListFilters(q), Num(q.limit))
        docs == [i \in 1..Len(fetched) |-> PopId(fetched[i])]
    IN  IF SortRaises(docs) THEN InternalError("TypeError")
        ELSE Ok([items |-> SortDesc(docs, <<>>)])

\* by[k] = 1: the count is set, not incremented
BumpSet(by, k) == (k :> 1) @@ by

\* by[k] = by.get(k, 0) + 1
Bump(by, k) ==
  IF k \in DOMAIN by THEN [by EXCEPT ![k] = @ + 1] ELSE by @@ (k :> 1)

\* a missing status taken for the schema's default: None counts as open
OpenStatusesOrNone ==
  {Str("reported"), Str("dispatched"), Str("on_scene"), Null}

\* {"reported", "dispatched", "on_scene"}
OpenStatuses == {Str("reported"), Str("dispatched"), Str("on_scene")}

\* "if d.get(...)": a response time of 0 is skipped like None
HasResponseTruthy(rm) ==
  rm.tag # "null" /\ ~(rm.tag = "num" /\ rm.num = 0) /\ ~(rm = Str(""))

\* d.get("response_minutes") is not None
HasResponse(rm) == rm.tag # "null"

\* the state of the aggregation before the loop
Acc0 ==
  [by_type |-> [k \in {} |-> 0], by_severity |-> [k \in {} |-> 0],
   open_cases |-> 0, response_sum |-> 0, response_count |-> 0,
   raised |-> FALSE]

\* one pass of the loop body over the record d
Step(acc, d) ==
  LET t == Get(d, "type", Str("other"))
      s == Get(d, "severity", Str("medium"))
      rm == Get(d, "response_minutes", Null)
  IN  IF HasResponse(rm) /\ FloatRaises(rm) THEN [acc EXCEPT !.raised = TRUE]
      ELSE
        [by_type |-> Bump(acc.by_type, t),
         by_severity |-> Bump(acc.by_severity, s),
         open_cases |->
           IF Get(d, "status", Null) \in OpenStatuses
           THEN acc.open_cases + 1 ELSE acc.open_cases,
         response_sum |->
           IF HasResponse(rm) THEN acc.response_sum + Float(rm)
           ELSE acc.response_sum,
         response_count |->
           IF HasResponse(rm) THEN acc.response_count + 1
           ELSE acc.response_count,
         raised |-> FALSE]

RECURSIVE Loop(_, _)
\* for d in docs: ...; an exception ends the loop
Loop(docs, acc) ==
  IF docs = <<>> \/ acc.raised THEN acc ELSE Loop(Tail(docs), Step(acc, Head(docs)))

\* int(100 * sum / count) / 100: cut off, not rounded
Round2Trunc(sum, count) == (100 * sum) \div count

\* round(sum / count, 2) in hundredths: to the nearest, a tie to the even.
\* With whole-minute inputs the quotient is a tie only when it is an odd
\* number of eighths, which a float holds exactly.
Round2(sum, count) ==
  LET n == 100 * sum
      q == n \div count
      r == n % count
  IN  IF 2 * r < count THEN q
      ELSE IF 2 * r > count THEN q + 1
      ELSE IF q % 2 = 0 THEN q ELSE q + 1

\* analytics_summary: the filter holds the precinct only; period is not read
SummaryFilters(q) == [k \in {f \in {"precinct"} : Truthy(q[f])} |-> q[k]]

\* the aggregation of the fetched records
summarize(docs) ==
  LET acc == Loop(docs, Acc0)
  IN  IF acc.raised THEN InternalError("ValueError")
      ELSE Ok([total |-> Len(docs),
               open |-> acc.open_cases,
               avg_response_minutes |->
                 IF acc.response_count # 0
                 THEN Num(Round2(acc.response_sum, acc.response_count))
                 ELSE Null,
               by_type |-> acc.by_type,
               by_severity |-> acc.by_severity])

\* the start of the window of a period, as a timestamp to compare with
WindowStart(period) ==
  CASE period = "24h" -> "2024-01-09T08:30:00+00:00"
    [] period = "7d" -> "2024-01-02"
    [] OTHER -> ""

\* the period applied: records reported before the window are left out
analytics_summary_windowed(coll, q) ==
  summarize(SelectSeq(get_documents(coll, SummaryFilters(q), Null),
                      LAMBDA d : d.reported_at.tag = "str" =>
                        ~StrLess(d.reported_at.str, WindowStart(q.period))))

analytics_summary(coll, q) ==
  summarize(get_documents(coll, SummaryFilters(q), Null))

\* n: Query(50, ge=1, le=500)
SeedMin == 1

SeedMax == 500

seed_types ==
  {"theft", "assault", "burglary", "fraud", "vandalism", "traffic",
   "narcotics", "disturbance", "other"}

seed_severities == {"low", "medium", "high", "critical"}

seed_statuses == {"reported", "dispatched", "on_scene", "resolved", "closed"}

seed_precincts == {"Central", "North", "South", "East", "West"}

\* the bounding box, in hundredths of a degree
lat_min == 3770

lat_max == 3782

lon_min == -12252

lon_max == -12236

\* random.randint(2, 60)
MinutesLo == 2

MinutesHi == 60

\* latitude and longitude passed the wrong way round
seed_doc_swapped(dr) ==
  [type |-> Str(dr.t),
   severity |-> Str(dr.sev),
   status |-> Str(dr.status),
   latitude |-> Num(dr.lon),
   longitude |-> Num(dr.lat),
   reported_at |-> Str(dr.report_when),
   response_minutes |->
     IF dr.status # "reported" THEN Num(dr.minutes) ELSE Null,
   precinct |-> Str(dr.precinct)]

\* the keyword arguments of Incident(...) for one draw
seed_doc(dr) ==
  [type |-> Str(dr.t),
   severity |-> Str(dr.sev),
   status |-> Str(dr.status),
   latitude |-> Num(dr.lat),
   longitude |-> Num(dr.lon),
   reported_at |-> Str(dr.report_when),
   response_minutes |->
     IF dr.status # "reported" THEN Num(dr.minutes) ELSE Null,
   precinct |-> Str(dr.precinct)]

RECURSIVE seed_loop(_, _, _)
\* for i in range(n): doc = Incident(...); create_document("incident", doc);
\* a ValidationError ends the loop with the earlier records inserted
seed_loop(coll, ds, created) ==
  IF ds = <<>> THEN [coll |-> coll, created |-> created, raised |-> FALSE]
  ELSE IF IncidentRaises(seed_doc(Head(ds)))
       THEN [coll |-> coll, created |-> created, raised |-> TRUE]
       ELSE seed_loop(create_document(coll, Incident(seed_doc(Head(ds)))),
                      Tail(ds), created + 1)

seed_incidents(coll, n, ds) ==
  IF n < SeedMin \/ n > SeedMax THEN Unprocessable
  ELSE IF seed_loop(coll, ds, 0).raised THEN InternalError("ValidationError")
  ELSE Ok([created |-> seed_loop(coll, ds, 0).created])

seed_incidents_store(coll, n, ds) ==
  IF n < SeedMin \/ n > SeedMax THEN coll ELSE seed_loop(coll, ds, 0).coll

(* ------------------------------ actions ------------------------------- *)

\* GET /
ReadRoot ==
  /\ request' = [op |-> "root"]
  /\ response' = read_root
  /\ UNCHANGED store

\* POST /incidents with a body drawn from payloads
CreateIncident(payloads, cap) ==
  \E payload \in payloads :
    /\ Len(store) < cap
    /\ request' = [op |-> "create", payload |-> payload]
    /\ response' = create_incident(store, payload)
    /\ store' = create_incident_store(store, payload)

\* GET /incidents with the query parameters q
ListIncidents(queries) ==
  \E q \in queries :
    /\ request' = [op |-> "list", q |-> q]
    /\ response' = list_incidents(store, q)
    /\ UNCHANGED store

\* GET /analytics/summary with the query parameters q
AnalyticsSummary(queries) ==
  \E q \in queries :
    /\ request' = [op |-> "summary", q |-> q]
    /\ response' = analytics_summary(store, q)
    /\ UNCHANGED store

\* POST /incidents/seed?n=, the generator returning the draws ds
SeedIncidents(ns, draws, cap) ==
  \E n \in ns :
    LET len == IF n < SeedMin \/ n > SeedMax THEN 0 ELSE n
    IN  /\ Len(store) + len <= cap
        /\ \E ds \in [1..len -> draws] :
             /\ request' = [op |-> "seed", n |-> n]
             /\ response' = seed_incidents(store, n, ds)
             /\ store' = seed_incidents_store(store, n, ds)

(* ------------------------- the stored records ------------------------- *)

\* Incident() with no argument: the defaults of every field
Defaults ==
  Incident([type |-> Absent, severity |-> Absent, status |-> Absent,
            latitude |-> Absent, longitude |-> Absent, reported_at |-> Absent,
            response_minutes |-> Absent, precinct |-> Absent])

\* the sequences over S of length at most n
SeqsUpTo(S, n) == UNION {[1..k -> S] : k \in 0..n}

NoRequest == [op |-> "none"]

NoResponse == [code |-> 0, body |-> [detail |-> "none"]]

\* the collection outlives the service and is written by other tools too:
\* at start it holds any records, which the service does not re-validate
InitWith(docs, cap) ==
  /\ store \in SeqsUpTo(docs, cap)
  /\ request = NoRequest
  /\ response = NoResponse

\* one draw, for the runs that are not about seeding
OneDraw ==
  {[t |-> "theft", sev |-> "high", status |-> "dispatched", minutes |-> 10,
    lat |-> lat_min, lon |-> lon_max,
    report_when |-> "2024-01-02T10:00:00+00:00", precinct |-> "Central"]}

NoFilter ==
  [type |-> Null, severity |-> Null, status |-> Null, precinct |-> Null,
   limit |-> 100]

(* --------- Spec: records that differ in type and severity ------------- *)

CountDocs ==
  {[Defaults EXCEPT !.type = t, !.severity = s] :
     t \in {Absent, Str("theft"), Str("other"), Str("arson")},
     s \in {Absent, Str("medium"), Str("high")}}

CountLists ==
  {NoFilter, [NoFilter EXCEPT !.type = Str("theft"), !.limit = 1]}

CountSummaries ==
  {[precinct |-> Null, period |-> "7d"],
   [precinct |-> Str("Central"), period |-> "24h"]}

Init == InitWith(CountDocs, MaxDocs)

Next ==
  \/ ReadRoot
  \/ CreateIncident(CountDocs, MaxDocs)
  \/ ListIncidents(CountLists)
  \/ AnalyticsSummary(CountSummaries)
  \/ SeedIncidents({0, 1}, OneDraw, MaxDocs)

Spec == Init /\ [][Next]_vars

(* ------------------------- what the claims use ------------------------ *)

\* the positions of the stored records that GET /analytics/summary fetches
Fetched(q) ==
  {i \in 1..Len(store) : Truthy(q.precinct) => store[i].precinct = q.precinct}

RECURSIVE SumOf(_, _)
\* the sum of f over the keys in S
SumOf(f, S) ==
  IF S = {} THEN 0
  ELSE LET k == CHOOSE x \in S : TRUE IN f[k] + SumOf(f, S \ {k})

Values(f) == SumOf(f, DOMAIN f)

SummaryReturned == request.op = "summary" /\ response.code = 200

\* the label a record is counted under
LabelOf(d, k, default) == IF d[k] = Absent THEN Str(default) ELSE d[k]

\* by counts every fetched record once, under its label
CountsByLabel(by, F, k, default) ==
  /\ DOMAIN by = {LabelOf(store[i], k, default) : i \in F}
  /\ \A l \in DOMAIN by :
       by[l] = Cardinality({i \in F : LabelOf(store[i], k, default) = l})

IsPrefix(s, t) == Len(s) <= Len(t) /\ \A i \in 1..Len(s) : s[i] = t[i]

(* C1: in every summary GET /analytics/summary returns, total is the number
   of fetched records, and the counts of by_type and the counts of
   by_severity each sum to total. *)
C1_TotalAndSums ==
  SummaryReturned =>
    /\ response.body.total = Cardinality(Fetched(request.q))
    /\ Values(response.body.by_type) = response.body.total
    /\ Values(response.body.by_severity) = response.body.total

\* a summary of three records, two of them of one type
C1_Witness ==
  /\ SummaryReturned
  /\ response.body.total = 3
  /\ \E k \in DOMAIN response.body.by_type : response.body.by_type[k] = 2

(* C5: in every summary returned, a fetched record without type is counted
   once under "other" in by_type, a fetched record without severity once
   under "medium" in by_severity, and a record that has the field under its
   own value. *)
C5_DefaultLabels ==
  SummaryReturned =>
    /\ CountsByLabel(response.body.by_type, Fetched(request.q), "type", "other")
    /\ CountsByLabel(response.body.by_severity, Fetched(request.q),
                     "severity", "medium")

\* a record without type beside one of type "other", one without severity
C5_Witness ==
  /\ SummaryReturned
  /\ \E i, j \in Fetched(request.q) :
       /\ store[i].type = Absent
       /\ store[j].type = Str("other")
       /\ store[i].severity = Absent
  /\ response.body.by_type[Str("other")] = 2
  /\ Str("medium") \in DOMAIN response.body.by_severity

(* ------------- SpecStatus: records that differ in status -------------- *)

StatusDocs ==
  {[Defaults EXCEPT !.status = st] :
     st \in {Absent, Str("reported"), Str("dispatched"), Str("on_scene"),
             Str("resolved"), Str("closed"), Str("REPORTED")}}

StatusLists ==
  {NoFilter, [NoFilter EXCEPT !.status = Str("closed"), !.limit = 2],
   [NoFilter EXCEPT !.limit = 1001]}

StatusSummaries ==
  {[precinct |-> Null, period |-> "7d"], [precinct |-> Str(""), period |-> "30d"]}

InitStatus == InitWith(StatusDocs, MaxDocs)

NextStatus ==
  \/ ReadRoot
  \/ CreateIncident(StatusDocs, MaxDocs)
  \/ ListIncidents(StatusLists)
  \/ AnalyticsSummary(StatusSummaries)
  \/ SeedIncidents({1, 501}, OneDraw, MaxDocs)

SpecStatus == InitStatus /\ [][NextStatus]_vars

(* C2: in every summary returned, open is the number of fetched records
   whose status is exactly reported, dispatched or on_scene; resolved,
   closed, any other value and a missing status are not counted. *)
C2_OpenCount ==
  SummaryReturned =>
    response.body.open =
      Cardinality({i \in Fetched(request.q) :
                     /\ store[i].status.tag = "str"
                     /\ store[i].status.str \in
                          {"reported", "dispatched", "on_scene"}})

\* a dispatched record counted beside a closed one, one without status and
\* one whose status differs in case only
C2_Witness ==
  /\ SummaryReturned
  /\ response.body.open = 1
  /\ response.body.total = 3
  /\ \E i, j, k \in Fetched(request.q) :
       /\ store[i].status = Str("dispatched")
       /\ store[j].status \in {Str("closed"), Str("REPORTED")}
       /\ store[k].status = Absent

(* C8: no step modifies or removes a stored incident: the collection only
   grows at its end, only POST /incidents and POST /incidents/seed change
   it, and GET /incidents and GET /analytics/summary leave it as it was. *)
C8_Frame ==
  [][/\ IsPrefix(store, store')
     /\ store' # store => request'.op \in {"create", "seed"}
     /\ request'.op \in {"list", "summary"} => store' = store]_vars

\* POST /incidents has filled the collection
C8_Witness ==
  /\ request.op = "create"
  /\ response.code = 200
  /\ Len(store) = MaxDocs

(* -------- SpecResponse: records that differ in response_minutes ------- *)

\* a mapping with none of the keys
Bare == [k \in Fields |-> Absent]

ResponseDocs ==
  {[Defaults EXCEPT !.response_minutes = rm] :
     rm \in {Absent, Null, Num(0), Num(10), Num(15), Num(20), Str("15"),
             Str("n/a")}}
  \cup {Bare}

ResponseLists == {NoFilter, [NoFilter EXCEPT !.status = Str("reported"), !.limit = 2]}

ResponseSummaries ==
  {[precinct |-> Null, period |-> "7d"],
   [precinct |-> Str("Central"), period |-> "24h"]}

InitResponse == InitWith(ResponseDocs, MaxDocs)

NextResponse ==
  \/ ReadRoot
  \/ CreateIncident(ResponseDocs, MaxDocs)
  \/ ListIncidents(ResponseLists)
  \/ AnalyticsSummary(ResponseSummaries)
  \/ SeedIncidents({1}, OneDraw, MaxDocs)

SpecResponse == InitResponse /\ [][NextResponse]_vars

\* a response time that is a number or reads as one
Numeric(v) ==
  \/ v.tag = "num"
  \/ /\ v.tag = "str"
     /\ Codes(v.str) # <<>>
     /\ \A i \in 1..Len(Codes(v.str)) : Codes(v.str)[i] \in 48..57

\* a response time that is given and does not read as a number
NotANumber(v) == v.tag = "str" /\ ~Numeric(v)

\* the number a numeric response time stands for
MinutesOf(v) ==
  CASE v = Num(0) -> 0 [] v = Num(10) -> 10 [] v = Num(15) -> 15
    [] v = Num(20) -> 20 [] v = Str("15") -> 15

\* the fetched records that supply a response time
Timed(q) == {i \in Fetched(q) : Numeric(store[i].response_minutes)}

TimedSum(q) ==
  SumOf([i \in Timed(q) |-> MinutesOf(store[i].response_minutes)], Timed(q))

\* the response times of the fetched records, in the order fetched
TimesFetched(q) ==
  LET F == SelectSeq([i \in 1..Len(store) |-> i], LAMBDA i : i \in Fetched(q))
  IN  [n \in 1..Len(F) |-> store[F[n]].response_minutes]

Abs(x) == IF x < 0 THEN -x ELSE x

(* C3: in every summary returned, avg_response_minutes is null exactly when
   no fetched record has a numeric response_minutes; no fetched record at
   all gives total 0, open 0, a null average and two empty mappings; a
   response_minutes of 0 makes the average non-null. *)
C3_AverageNullIff ==
  SummaryReturned =>
    /\ response.body.avg_response_minutes = Null <=> Timed(request.q) = {}
    /\ response.body.avg_response_minutes.tag \in {"null", "num"}
    /\ Fetched(request.q) = {} =>
         /\ response.body.total = 0
         /\ response.body.open = 0
         /\ response.body.avg_response_minutes = Null
         /\ DOMAIN response.body.by_type = {}
         /\ DOMAIN response.body.by_severity = {}
    /\ (\E i \in Fetched(request.q) : store[i].response_minutes = Num(0)) =>
         response.body.avg_response_minutes # Null

\* the only response time fetched is 0, beside records without one
C3_Witness ==
  /\ SummaryReturned
  /\ response.body.total = 3
  /\ \E i, j, k \in Fetched(request.q) :
       /\ store[i].response_minutes = Num(0)
       /\ store[j].response_minutes = Null
       /\ store[k].response_minutes = Absent
  /\ response.body.avg_response_minutes = Num(0)

(* C4: when a fetched record has a numeric response_minutes, the average is
   the mean of response_minutes over exactly the records that have it,
   rounded to two decimals (the nearest hundredth): [10, 15, 20] gives
   15.00 and [10, 15] gives 12.5. *)
C4_AverageIsRoundedMean ==
  (SummaryReturned /\ Timed(request.q) # {}) =>
    LET avg == response.body.avg_response_minutes
        c == Cardinality(Timed(request.q))
    IN  /\ avg.tag = "num"
        /\ 2 * Abs(avg.num * c - 100 * TimedSum(request.q)) <= c
        /\ TimesFetched(request.q) = <<Num(10), Num(15), Num(20)>> =>
             avg.num = 1500
        /\ TimesFetched(request.q) = <<Num(10), Num(15)>> => avg.num = 1250

\* 10, 10 and 15 with no record left out: 11.666... is returned as 11.67
C4_Witness ==
  /\ SummaryReturned
  /\ response.body.total = 3
  /\ Cardinality(Timed(request.q)) = 3
  /\ TimedSum(request.q) = 35
  /\ response.body.avg_response_minutes = Num(1167)

(* C9: GET /analytics/summary fails as a whole with an internal error (500,
   no summary in the body) exactly when a fetched record has a
   response_minutes that cannot be read as a number; a missing type,
   severity or status never makes it fail. *)
C9_FailsOnlyOnBadMinutes ==
  request.op = "summary" =>
    /\ response.code \in {200, 500}
    /\ response.code = 500 <=>
         \E i \in Fetched(request.q) : NotANumber(store[i].response_minutes)
    /\ response.code = 500 => DOMAIN response.body = {"detail"}
    /\ response.code = 200 =>
         DOMAIN response.body =
           {"total", "open", "avg_response_minutes", "by_type", "by_severity"}

\* a record with no key at all and a timed one come before the bad one
C9_Witness ==
  /\ request.op = "summary"
  /\ response.code = 500
  /\ Len(store) = 3
  /\ store[1] = Bare
  /\ store[2].response_minutes = Num(10)
  /\ store[3].response_minutes = Str("n/a")

(* ------ SpecPeriod: records that differ in precinct and in age -------- *)

PeriodDocs ==
  {[Defaults EXCEPT !.precinct = p, !.reported_at = w] :
     p \in {Str("Central"), Str("North")},
     w \in {Absent, Str("2024-01-01"), Str("2024-01-09T08:30:00+00:00")}}

Periods == {"24h", "7d", "30d"}

PeriodLists == {[NoFilter EXCEPT !.precinct = Str("North"), !.limit = 2]}

PeriodSummaries ==
  [precinct : {Null, Str("Central")}, period : Periods]

InitPeriod == InitWith(PeriodDocs, MaxDocs)

NextPeriod ==
  \/ ReadRoot
  \/ CreateIncident(PeriodDocs, MaxDocs)
  \/ ListIncidents(PeriodLists)
  \/ AnalyticsSummary(PeriodSummaries)
  \/ SeedIncidents({1}, OneDraw, MaxDocs)

SpecPeriod == InitPeriod /\ [][NextPeriod]_vars

(* C10: the summary does not depend on period: for the same collection and
   precinct every period gives the summary that was returned, and every
   record matching the precinct filter (every record when no precinct is
   given) is counted whatever its reported_at. *)
C10_PeriodIgnored ==
  request.op = "summary" =>
    /\ \A p \in Periods :
         analytics_summary(store, [request.q EXCEPT !.period = p]) = response
    /\ response.code = 200 =>
         response.body.total = Cardinality(Fetched(request.q))

\* a day's window asked for over a precinct whose records are old or undated
C10_Witness ==
  /\ SummaryReturned
  /\ request.q = [precinct |-> Str("Central"), period |-> "24h"]
  /\ response.body.total = 2
  /\ \E i, j \in Fetched(request.q) :
       /\ store[i].reported_at = Str("2024-01-01")
       /\ store[j].reported_at = Absent
  /\ Len(store) = 3

(* ---------- SpecListing: records that differ in reported_at ----------- *)

ListingDocs ==
  {[Defaults EXCEPT !.reported_at = w] :
     w \in {Absent, Null, Str(""), Str("2024-01"), Str("2024-01-01"),
            Str("2024-01-02")}}

ListingLists ==
  {NoFilter, [NoFilter EXCEPT !.limit = 2], [NoFilter EXCEPT !.limit = 0],
   [NoFilter EXCEPT !.type = Str("other"), !.severity = Str("medium"),
                    !.status = Str("reported"), !.precinct = Str("")]}

ListingSummaries == {[precinct |-> Null, period |-> "7d"]}

InitListing == InitWith(ListingDocs, MaxDocs)

NextListing ==
  \/ ReadRoot
  \/ CreateIncident(ListingDocs, MaxDocs)
  \/ ListIncidents(ListingLists)
  \/ AnalyticsSummary(ListingSummaries)
  \/ SeedIncidents({1}, OneDraw, MaxDocs)

SpecListing == InitListing /\ [][NextListing]_vars

\* the positions of the stored records that GET /incidents fetches
Listed(q) ==
  LET M == {i \in 1..Len(store) :
              \A k \in FilterKeys : Truthy(q[k]) => store[i][k] = q[k]}
  IN  {i \in M : Cardinality({j \in M : j <= i}) <= q.limit}

\* the timestamp a record is ordered by: the empty string when it has none
TimestampOf(d) ==
  IF d.reported_at.tag = "str" THEN d.reported_at.str ELSE ""

\* items holds the fetched records, each once, newest first
SortedListing(items, q) ==
  /\ Len(items) = Cardinality(Listed(q))
  /\ \A i \in Listed(q) :
       \E n \in 1..Len(items) :
         /\ items[n].id = ToString(i)
         /\ \A k \in Fields : items[n][k] = store[i][k]
  /\ \A m, n \in 1..Len(items) :
       m < n => ~StrLess(TimestampOf(items[m]), TimestampOf(items[n]))

(* C6: GET /incidents returns the fetched records as a permutation ordered
   by reported_at descending in string order, a record without reported_at
   ordered as if its timestamp were the empty string, and the request
   succeeds for any mix of records with and without reported_at. *)
C6_ListingSorted ==
  (request.op = "list" /\ request.q.limit \in LimitMin..LimitMax) =>
    /\ response.code = 200
    /\ SortedListing(response.body.items, request.q)

\* the same for the requests that succeed
C6_ListingSortedWhenReturned ==
  (request.op = "list" /\ response.code = 200) =>
    SortedListing(response.body.items, request.q)

\* the request succeeds whenever no fetched reported_at is null
C6_SucceedsWithoutNull ==
  (request.op = "list" /\ request.q.limit \in LimitMin..LimitMax
     /\ \A i \in Listed(request.q) : store[i].reported_at # Null) =>
    response.code = 200

\* the listing of the spec: 2024-01-02, 2024-01-01, then the record without
C6_ListingExample ==
  /\ request.op = "list"
  /\ response.code = 200
  /\ Len(store) = 3
  /\ store[1].reported_at = Absent
  /\ store[2].reported_at = Str("2024-01-01")
  /\ store[3].reported_at = Str("2024-01-02")
  /\ Len(response.body.items) = 3
  /\ response.body.items[1].id = "3"
  /\ response.body.items[3].id = "1"

(* -------------- SpecSeed: the records the generator makes ------------- *)

\* the draws of the other generators that go with each type: the two ends
\* of every range, a reported record at one end
SeedCorners ==
  {[sev |-> "low", status |-> "reported", minutes |-> MinutesLo,
    lat |-> lat_min, lon |-> lon_min,
    report_when |-> "2024-01-02T10:00:00+00:00", precinct |-> "Central"],
   [sev |-> "critical", status |-> "closed", minutes |-> MinutesHi,
    lat |-> lat_max, lon |-> lon_max,
    report_when |-> "2024-01-09T08:30:00+00:00", precinct |-> "West"]}

\* every type at both ends, and the draw of OneDraw with the least minutes
SeedDraws ==
  {[t |-> t] @@ c : t \in seed_types, c \in SeedCorners}
  \cup {[dr EXCEPT !.minutes = MinutesLo] : dr \in OneDraw}

SeedLists == {NoFilter}

SeedSummaries == {[precinct |-> Str("West"), period |-> "7d"]}

InitSeed == InitWith({Defaults}, 0)

NextSeed ==
  \/ ReadRoot
  \/ CreateIncident({Defaults}, MaxSeed)
  \/ ListIncidents(SeedLists)
  \/ AnalyticsSummary(SeedSummaries)
  \/ SeedIncidents(0..MaxSeed \cup {SeedMax + 1}, SeedDraws, MaxSeed)

SpecSeed == InitSeed /\ [][NextSeed]_vars

(* C7: POST /incidents/seed with n in [1, 500] inserts exactly n records
   and responds {created: n}; every inserted record satisfies the Incident
   field constraints. *)
C7_SeedCreatesValid ==
  [][(request'.op = "seed" /\ request'.n \in SeedMin..SeedMax) =>
       /\ response'.code = 200
       /\ response'.body.created = request'.n
       /\ Len(store') = Len(store) + request'.n
       /\ IsPrefix(store, store')
       /\ \A i \in (Len(store) + 1)..Len(store') : SatisfiesIncident(store'[i])
    ]_vars

\* two records seeded, a reported one without response time among them
C7_Witness ==
  /\ request.op = "seed"
  /\ request.n = 2
  /\ response.code = 200
  /\ response.body.created = 2
  /\ Len(store) = 2
  /\ store[1].response_minutes = Null
  /\ store[2].response_minutes = Num(MinutesHi)

====
